---- MODULE Spec2Model ----
(***************************************************************************)
(* Model of the polling / state-reconciliation loop of the threat monitor  *)
(* dashboard (frontend/src/App.js): the four useState slots, the effect    *)
(* that dispatches fetchData at mount and on every interval tick, the two  *)
(* axios requests of a cycle joined by Promise.all, the continuation of    *)
(* fetchData after the await (try / catch / finally), the effect cleanup,  *)
(* and the render-mode selection of the component body.                    *)
(*                                                                         *)
(* One action is one event-loop task together with the microtasks it       *)
(* triggers: the settlement of a request and, when it settles Promise.all, *)
(* the rest of fetchData run in the same action.                           *)
(***************************************************************************)
EXTENDS Integers, Sequences, FiniteSets, TLC

\* ---------------------------------------------------------------- bounds
\* Largest number of fetch cycles dispatched in one behaviour.
MaxCycles == 2

\* ------------------------------------------------------- optional values
\* JavaScript null as the empty tuple, a present value as a 1-tuple.
None == <<>>
Some(x) == <<x>>

\* ------------------------------------------------------------ JSON values
NoFields == [k \in {} |-> 0]
JNull == [type |-> "null", fields |-> NoFields]
JObj(f) == [type |-> "object", fields |-> f]
\* A body that is a string (text that is not JSON): it has no own fields.
JString == [type |-> "string", fields |-> NoFields]

\* A JavaScript string whose characters matter is the sequence of its
\* characters.
Critical == <<"c", "r", "i", "t", "i", "c", "a", "l">>
High == <<"h", "i", "g", "h">>
Medium == <<"m", "e", "d", "i", "u", "m">>
Low == <<"l", "o", "w">>

T1 == [severity |-> High, type |-> "PortScan"]
T2 == [severity |-> <<"C", "R", "I", "T", "I", "C", "A", "L">>, type |-> "Malware"]

\* Bodies the service may answer GET /api/threats with.
ThreatsData ==
  { JNull,
    JString,
    JObj(NoFields),
    JObj([k \in {"threats"} |-> <<>>]),
    JObj([k \in {"threats"} |-> <<T1>>]),
    JObj([k \in {"threats"} |-> <<T2, T1>>]) }

\* Bodies the service may answer GET /api/dashboard/summary with.
SummaryData ==
  { JNull,
    JObj([k \in {"total_threats"} |-> 0]),
    JObj([k \in {"total_threats", "critical_threats"} |-> 2]) }

\* err.message of a rejected axios request.
Messages == { "Network Error", "Request failed with status code 500" }

\* err.message of the TypeError thrown by reading .threats of null.
TypeErrorMessage == "Cannot read properties of null (reading 'threats')"

\* --------------------------------------------------------------- requests
\* The promise of one axios.get: its state, the data of the response when
\* fulfilled, the message of the error when rejected.
Pending == [state |-> "pending", data |-> JNull, message |-> ""]
Fulfilled(d) == [state |-> "fulfilled", data |-> d, message |-> ""]
Rejected(m) == [state |-> "rejected", data |-> JNull, message |-> m]
\* A settled request whose response nothing refers to any more.
Settled == [state |-> "settled", data |-> JNull, message |-> ""]

Outcomes(which) ==
  { Rejected(m) : m \in Messages } \cup
  { Fulfilled(d) : d \in IF which = "threats" THEN ThreatsData ELSE SummaryData }

VARIABLES
  threats,     \* useState([])    : sequence of threats
  summary,     \* useState(null)  : None or Some(record)
  loading,     \* useState(true)
  error,       \* useState(null)  : None or Some(string)
  interval,    \* the timer of the effect: "unset", "armed", "cleared"
  cycles,      \* the fetchData invocations, in dispatch order
  ticks,       \* number of interval callbacks run
  view,        \* lifecycle: "constructed", "mounted", "unmounted"
  rendered,    \* the render mode the component body last returned
  output,      \* what the component body last returned
  last,        \* history: the event of the last step
  dashShown,   \* history: dashboard rendered after a completed success
  isolated,    \* history: the last cycle was dispatched with none in flight
  lastSuccess  \* history: the last cycle that completed successfully

vars == <<threats, summary, loading, error, interval, cycles, ticks,
          view, rendered, output, last, dashShown, isolated, lastSuccess>>

UIState == [threats |-> threats, summary |-> summary,
            loading |-> loading, error |-> error]

\* ------------------------------------------------------------- Presenter
\* JavaScript truthiness of the error slot (if (error) ...).
Truthy(e) == e # None /\ e[1] # ""

RenderModeSwapped(e, l, t) ==
  IF l /\ Len(t) = 0 THEN "loading"
  ELSE IF Truthy(e) THEN "error"
  ELSE "dashboard"

\* The three returns of the component body.
RenderMode(e, l, t) ==
  IF Truthy(e) THEN "error"
  ELSE IF l /\ Len(t) = 0 THEN "loading"
  ELSE "dashboard"

Mode == RenderMode(error, loading, threats)

API_BASE == "http://localhost:8001"

UpperCase == <<"A", "B", "C", "D", "E", "F", "G", "H", "I", "J", "K", "L", "M",
               "N", "O", "P", "Q", "R", "S", "T", "U", "V", "W", "X", "Y", "Z">>
LowerCase == <<"a", "b", "c", "d", "e", "f", "g", "h", "i", "j", "k", "l", "m",
               "n", "o", "p", "q", "r", "s", "t", "u", "v", "w", "x", "y", "z">>

\* The lower-case form of each upper-case letter, and the converse.
LowerOf ==
  [ch \in {UpperCase[n] : n \in 1..26} |->
     LowerCase[CHOOSE n \in 1..26 : UpperCase[n] = ch]]
UpperOf ==
  [ch \in {LowerCase[n] : n \in 1..26} |->
     UpperCase[CHOOSE n \in 1..26 : LowerCase[n] = ch]]

\* String.prototype.toLowerCase / toUpperCase, character by character.
ToLowerCase(str) ==
  [k \in 1..Len(str) |->
     IF str[k] \in DOMAIN LowerOf THEN LowerOf[str[k]] ELSE str[k]]

ToUpperCase(str) ==
  [k \in 1..Len(str) |->
     IF str[k] \in DOMAIN UpperOf THEN UpperOf[str[k]] ELSE str[k]]

\* threat.severity: None when the threat has no such field.
SeverityOf(t) == IF "severity" \in DOMAIN t THEN Some(t.severity) ELSE None

getSeverityColorCaseSensitive(severity) ==
  LET key == severity
  IN IF key = Some(Critical) THEN "#ff4444"
     ELSE IF key = Some(High) THEN "#ff8800"
     ELSE IF key = Some(Medium) THEN "#ffaa00"
     ELSE IF key = Some(Low) THEN "#88aa00"
     ELSE "#888888"

\* switch (severity?.toLowerCase()) { ... }
getSeverityColor(severity) ==
  LET key == IF severity = None THEN None ELSE Some(ToLowerCase(severity[1]))
  IN IF key = Some(Critical) THEN "#ff4444"
     ELSE IF key = Some(High) THEN "#ff8800"
     ELSE IF key = Some(Medium) THEN "#ffaa00"
     ELSE IF key = Some(Low) THEN "#88aa00"
     ELSE "#888888"

\* threat.severity?.toUpperCase() || 'UNKNOWN'
Badge(severity) ==
  IF severity = None \/ severity = Some(<<>>)
  THEN <<"U", "N", "K", "N", "O", "W", "N">>
  ELSE ToUpperCase(severity[1])

\* One card of the threat list.
Card(t) ==
  [color |-> getSeverityColor(SeverityOf(t)),
   badge |-> Badge(SeverityOf(t)),
   type  |-> t.type]

\* summary.<field> || 0
Counter(s, f) == IF f \in DOMAIN s THEN s[f] ELSE 0

\* new Date().toLocaleTimeString(): the time of day, in whole polling
\* periods; the interval callback runs once per period.
Now(n) == n

\* What the component body returns for the four slots at clock reading n.
RenderOutput(e, l, t, s, n) ==
  IF RenderMode(e, l, t) = "error"
    THEN [mode |-> "error", message |-> e[1], hint |-> API_BASE]
  ELSE IF RenderMode(e, l, t) = "loading"
    THEN [mode |-> "loading"]
  ELSE [mode       |-> "dashboard",
        time       |-> Now(n),
        refreshing |-> l,
        counters   |-> IF s = None THEN None
                       ELSE Some([total     |-> Counter(s[1], "total_threats"),
                                  critical  |-> Counter(s[1], "critical_threats"),
                                  blocked   |-> Counter(s[1], "blocked_connections"),
                                  processes |-> Counter(s[1], "monitored_processes")]),
        count      |-> Len(t),
        banner     |-> Len(t) = 0,
        cards      |-> [k \in 1..Len(t) |-> Card(t[k])]]

\* --------------------------------------------------------------- Fetcher
PromiseAllRace(c) ==
  IF c.threatsReq.state = "fulfilled" \/ c.summaryReq.state = "fulfilled"
    THEN "fulfilled"
  ELSE IF c.threatsReq.state = "rejected" \/ c.summaryReq.state = "rejected"
    THEN "rejected"
  ELSE "pending"

PromiseAllThreatsOnly(c) == c.threatsReq.state

\* State of Promise.all over the two requests of a cycle: rejected as soon
\* as one request is rejected, fulfilled when both are fulfilled.

PromiseAll(c) ==
  IF c.threatsReq.state = "rejected" \/ c.summaryReq.state = "rejected"
    THEN "rejected"
  ELSE IF c.threatsReq.state = "fulfilled" /\ c.summaryReq.state = "fulfilled"
    THEN "fulfilled"
  ELSE "pending"

ThreatsOfKeep(d) ==
  IF "threats" \in DOMAIN d.fields THEN d.fields["threats"] ELSE threats

ThreatsOfMerged(d) ==
  threats \o (IF "threats" \in DOMAIN d.fields THEN d.fields["threats"] ELSE <<>>)

\* threatsRes.data.threats || []
ThreatsOf(d) ==
  IF "threats" \in DOMAIN d.fields THEN d.fields["threats"] ELSE <<>>

\* summaryRes.data || {}
SummaryOf(d) ==
  IF d.type = "null" THEN NoFields ELSE d.fields

\* `Failed to fetch data: ${err.message}`
FailureText(m) == "Failed to fetch data: " \o m

\* setLoading(true) at the start of fetchData
DispatchLoading == TRUE

\* setError(null) at the start of fetchData
DispatchErrorKept(e) == e
DispatchError(e) == None

\* setLoading(false) of the finally block
FinallyLoadingKept(l) == l
FinallyLoading(l) == FALSE

\* clearInterval(interval) of the effect cleanup
ClearIntervalNoop(h) == h
ClearInterval(h) == "cleared"

NewCycle == [threatsReq |-> Pending, summaryReq |-> Pending, phase |-> "awaiting"]

InFlight == { i \in 1..Len(cycles) : cycles[i].phase = "awaiting" }
Succeeded == { i \in 1..Len(cycles) : cycles[i].phase = "success" }

\* The history of successful completions and of isolated dispatches.
History ==
  /\ isolated' = IF Len(cycles') > Len(cycles) THEN InFlight = {} ELSE isolated
  /\ lastSuccess' =
       IF \E i \in 1..Len(cycles) :
            cycles[i].phase = "awaiting" /\ cycles'[i].phase = "success"
       THEN Some([cycle    |-> last'.cycle,
                  res      |-> <<last'.res.threatsReq.data,
                                 last'.res.summaryReq.data>>,
                  out      |-> output',
                  isolated |-> isolated,
                  stale    |-> /\ lastSuccess # None
                               /\ lastSuccess[1].cycle > last'.cycle
                               /\ <<threats', summary'>> # <<threats, summary>>])
       ELSE lastSuccess

\* The component body run on the new state.
Shown ==
  /\ rendered' = RenderMode(error', loading', threats')
  /\ output' = RenderOutput(error', loading', threats', summary', ticks')
  /\ dashShown' = (dashShown \/
       (Succeeded' # {} /\ RenderMode(error', loading', threats') = "dashboard"))
  /\ History

\* fetchData up to the await: the two setters and the two axios.get calls.
FetchDataStart ==
  /\ loading' = DispatchLoading
  /\ error' = DispatchError(error)
  /\ cycles' = Append(cycles, NewCycle)
  /\ UNCHANGED <<threats, summary>>

\* The effect body: fetchData() and setInterval(fetchData, 5000).
Mount ==
  /\ view = "constructed"
  /\ FetchDataStart
  /\ interval' = "armed"
  /\ view' = "mounted"
  /\ last' = [kind |-> "dispatch", cycle |-> Len(cycles) + 1]
  /\ UNCHANGED ticks
  /\ Shown

TickCoalesced ==
  /\ interval = "armed"
  /\ Len(cycles) < MaxCycles
  /\ IF InFlight = {}
     THEN FetchDataStart
     ELSE UNCHANGED <<threats, summary, loading, error, cycles>>
  /\ ticks' = ticks + 1
  /\ last' = [kind |-> "dispatch", cycle |-> Len(cycles')]
  /\ UNCHANGED <<interval, view>>
  /\ Shown

\* One callback of the interval timer: fetchData().
Tick ==
  /\ interval = "armed"
  /\ Len(cycles) < MaxCycles
  /\ FetchDataStart
  /\ ticks' = ticks + 1
  /\ last' = [kind |-> "dispatch", cycle |-> Len(cycles) + 1]
  /\ UNCHANGED <<interval, view>>
  /\ Shown

\* The effect cleanup: clearInterval(interval).
Unmount ==
  /\ view = "mounted"
  /\ interval' = ClearInterval(interval)
  /\ view' = "unmounted"
  /\ last' = [kind |-> "unmount", cycle |-> 0]
  /\ UNCHANGED <<threats, summary, loading, error, cycles, ticks>>
  /\ Shown

\* The responses of a cycle go out of scope when fetchData returns.
Forget(r) == IF r.state = "pending" THEN r ELSE Settled

Returned(c, ph) ==
  [threatsReq |-> Forget(c.threatsReq), summaryReq |-> Forget(c.summaryReq),
   phase |-> ph]

ContinuationSequenced(i, c, m) ==
  IF PromiseAll(c) = "fulfilled" /\ c.threatsReq.data.type # "null"
  THEN /\ IF \E j \in (i + 1)..Len(cycles) : cycles[j].phase = "success"
          THEN UNCHANGED <<threats, summary>>
          ELSE /\ threats' = ThreatsOf(c.threatsReq.data)
               /\ summary' = Some(SummaryOf(c.summaryReq.data))
       /\ error' = error
       /\ loading' = FinallyLoading(loading)
       /\ cycles' = [cycles EXCEPT ![i] = Returned(c, "success")]
       /\ last' = [kind |-> "success", cycle |-> i, res |-> c]
  ELSE /\ error' = Some(FailureText(
                     IF PromiseAll(c) = "fulfilled" THEN TypeErrorMessage ELSE m))
       /\ loading' = FinallyLoading(loading)
       /\ cycles' = [cycles EXCEPT ![i] = Returned(c, "failure")]
       /\ last' = [kind |-> "failure", cycle |-> i, res |-> c]
       /\ UNCHANGED <<threats, summary>>

ContinuationSummaryFirst(i, c, m) ==
  IF PromiseAll(c) = "fulfilled" /\ c.threatsReq.data.type # "null"
  THEN /\ threats' = ThreatsOf(c.threatsReq.data)
       /\ summary' = Some(SummaryOf(c.summaryReq.data))
       /\ error' = error
       /\ loading' = FinallyLoading(loading)
       /\ cycles' = [cycles EXCEPT ![i] = Returned(c, "success")]
       /\ last' = [kind |-> "success", cycle |-> i, res |-> c]
  ELSE /\ error' = Some(FailureText(
                     IF PromiseAll(c) = "fulfilled" THEN TypeErrorMessage ELSE m))
       /\ loading' = FinallyLoading(loading)
       /\ cycles' = [cycles EXCEPT ![i] = Returned(c, "failure")]
       /\ last' = [kind |-> "failure", cycle |-> i, res |-> c]
       /\ summary' = IF PromiseAll(c) = "fulfilled"
                     THEN Some(SummaryOf(c.summaryReq.data)) ELSE summary
       /\ UNCHANGED threats

ContinuationClearing(i, c, m) ==
  IF PromiseAll(c) = "fulfilled" /\ c.threatsReq.data.type # "null"
  THEN /\ threats' = ThreatsOf(c.threatsReq.data)
       /\ summary' = Some(SummaryOf(c.summaryReq.data))
       /\ error' = error
       /\ loading' = FinallyLoading(loading)
       /\ cycles' = [cycles EXCEPT ![i] = Returned(c, "success")]
       /\ last' = [kind |-> "success", cycle |-> i, res |-> c]
  ELSE /\ error' = Some(FailureText(
                     IF PromiseAll(c) = "fulfilled" THEN TypeErrorMessage ELSE m))
       /\ loading' = FinallyLoading(loading)
       /\ cycles' = [cycles EXCEPT ![i] = Returned(c, "failure")]
       /\ last' = [kind |-> "failure", cycle |-> i, res |-> c]
       /\ threats' = <<>>
       /\ summary' = None

\* fetchData after the await, for cycle i whose requests are as in c.
\* Promise.all fulfilled: the try block; reading .threats of a null body
\* throws before setThreats.  Promise.all rejected with message m: catch.
Continuation(i, c, m) ==
  IF PromiseAll(c) = "fulfilled" /\ c.threatsReq.data.type # "null"
  THEN /\ threats' = ThreatsOf(c.threatsReq.data)
       /\ summary' = Some(SummaryOf(c.summaryReq.data))
       /\ error' = error
       /\ loading' = FinallyLoading(loading)
       /\ cycles' = [cycles EXCEPT ![i] = Returned(c, "success")]
       /\ last' = [kind |-> "success", cycle |-> i, res |-> c]
  ELSE /\ error' = Some(FailureText(
                     IF PromiseAll(c) = "fulfilled" THEN TypeErrorMessage ELSE m))
       /\ loading' = FinallyLoading(loading)
       /\ cycles' = [cycles EXCEPT ![i] = Returned(c, "failure")]
       /\ last' = [kind |-> "failure", cycle |-> i, res |-> c]
       /\ UNCHANGED <<threats, summary>>

\* One axios request of cycle i settles with outcome o.  When that settles
\* the cycle's Promise.all and fetchData is still suspended at the await,
\* the rest of fetchData runs; a response arriving after fetchData has
\* returned is dropped.
Settle(i, which, o) ==
  /\ i \in 1..Len(cycles)
  /\ LET c0 == cycles[i]
         c  == IF which = "threats" THEN [c0 EXCEPT !.threatsReq = o]
                                    ELSE [c0 EXCEPT !.summaryReq = o]
     IN /\ (IF which = "threats" THEN c0.threatsReq ELSE c0.summaryReq) = Pending
        /\ IF c0.phase # "awaiting"
           THEN /\ cycles' = [cycles EXCEPT ![i] = Returned(c, c0.phase)]
                /\ last' = [kind |-> "late", cycle |-> i]
                /\ UNCHANGED <<threats, summary, loading, error>>
           ELSE IF PromiseAll(c) # "pending"
           THEN Continuation(i, c, IF o.state = "rejected" THEN o.message ELSE "")
           ELSE /\ cycles' = [cycles EXCEPT ![i] = c]
                /\ last' = [kind |-> "settle", cycle |-> i]
                /\ UNCHANGED <<threats, summary, loading, error>>
  /\ UNCHANGED <<interval, ticks, view>>
  /\ Shown

SettleThreats == \E i \in 1..MaxCycles : \E o \in Outcomes("threats") : Settle(i, "threats", o)
SettleSummary == \E i \in 1..MaxCycles : \E o \in Outcomes("summary") : Settle(i, "summary", o)

\* The state after the component function first ran (the useState defaults).
Init ==
  /\ threats = <<>>
  /\ summary = None
  /\ loading = TRUE
  /\ error = None
  /\ interval = "unset"
  /\ cycles = <<>>
  /\ ticks = 0
  /\ view = "constructed"
  /\ rendered = RenderMode(None, TRUE, <<>>)
  /\ output = RenderOutput(None, TRUE, <<>>, None, 0)
  /\ last = [kind |-> "init", cycle |-> 0]
  /\ dashShown = FALSE
  /\ isolated = FALSE
  /\ lastSuccess = None

Next == Mount \/ Tick \/ Unmount \/ SettleThreats \/ SettleSummary

Spec == Init /\ [][Next]_vars

\* ------------------------------------------------- the Presenter alone
\* The values the four slots can take.
ThreatLists == { ThreatsOf(d) : d \in ThreatsData }
Summaries == {None} \cup { Some(SummaryOf(d)) : d \in SummaryData }
Errors == {None} \cup { Some(FailureText(m)) : m \in Messages \cup {TypeErrorMessage} }

InitPresenter ==
  /\ threats \in ThreatLists
  /\ summary \in Summaries
  /\ loading \in BOOLEAN
  /\ error \in Errors
  /\ interval = "armed"
  /\ cycles = <<>>
  /\ ticks = 0
  /\ view = "mounted"
  /\ rendered = "none"
  /\ output = [mode |-> "none"]
  /\ last = [kind |-> "init", cycle |-> 0]
  /\ dashShown = FALSE
  /\ isolated = FALSE
  /\ lastSuccess = None

\* The component body run on the current state.
Render ==
  /\ rendered' = RenderMode(error, loading, threats)
  /\ output' = RenderOutput(error, loading, threats, summary, ticks)
  /\ UNCHANGED <<threats, summary, loading, error, interval, cycles, ticks,
                 view, last, dashShown, isolated, lastSuccess>>

SpecPresenter == InitPresenter /\ [][Render]_vars

\* ------------------------------------------ the severity badge alone
\* The strings that differ from w by the case of their letters only.
RECURSIVE Casings(_)
Casings(w) ==
  IF w = <<>> THEN { <<>> }
  ELSE { <<ch>> \o rest : ch \in {Head(w), UpperOf[Head(w)]},
                           rest \in Casings(Tail(w)) }

\* Severity strings that are no casing of the four names.
OtherSeverities ==
  { <<>>,
    <<"b", "o", "g", "u", "s">>,
    <<"h", "i", "g">>,
    <<"h", "i", "g", "h", "s">>,
    <<"L", "O">>,
    <<"l", "o", "w", " ">>,
    <<"u", "n", "k", "n", "o", "w", "n">> }

\* One threat per severity string, and one threat with no severity.
SeverityThreats ==
  { [severity |-> s, type |-> "PortScan"] :
      s \in Casings(Critical) \cup Casings(High) \cup Casings(Medium)
            \cup Casings(Low) \cup OtherSeverities }
  \cup { [type |-> "PortScan"] }

InitSeverity ==
  /\ threats \in { <<t>> : t \in SeverityThreats }
  /\ summary = None
  /\ loading = FALSE
  /\ error = None
  /\ interval = "armed"
  /\ cycles = <<>>
  /\ ticks = 0
  /\ view = "mounted"
  /\ rendered = "none"
  /\ output = [mode |-> "none"]
  /\ last = [kind |-> "init", cycle |-> 0]
  /\ dashShown = FALSE
  /\ isolated = FALSE
  /\ lastSuccess = None

SpecSeverity == InitSeverity /\ [][Render]_vars

\* ------------------------------------------- the poll that never stops
\* The interval callback, the count of ticks not kept.
TickLive ==
  /\ interval = "armed"
  /\ Len(cycles) < MaxCycles
  /\ FetchDataStart
  /\ last' = [kind |-> "dispatch", cycle |-> Len(cycles) + 1]
  /\ UNCHANGED <<interval, view, ticks>>
  /\ Shown

\* A fetchData invocation that has returned and whose two requests have
\* both settled is gone: nothing refers to it any more.
Collect ==
  /\ \E i \in 1..Len(cycles) :
       /\ cycles[i].phase # "awaiting"
       /\ cycles[i].threatsReq = Settled
       /\ cycles[i].summaryReq = Settled
       /\ cycles' = [k \in 1..(Len(cycles) - 1) |->
                       IF k < i THEN cycles[k] ELSE cycles[k + 1]]
       /\ last' = [kind |-> "collect", cycle |-> i]
  /\ UNCHANGED <<threats, summary, loading, error, interval, ticks, view,
                 rendered, output, dashShown, isolated, lastSuccess>>

NextHeal == Mount \/ TickLive \/ SettleThreats \/ SettleSummary \/ Collect

\* The timer keeps ticking while armed and every request issued is
\* eventually answered or fails.
SpecHeal ==
  /\ Init
  /\ [][NextHeal]_vars
  /\ WF_vars(Mount)
  /\ WF_vars(TickLive)
  /\ WF_vars(Collect)
  /\ \A i \in 1..MaxCycles :
       /\ WF_vars(\E o \in Outcomes("threats") : Settle(i, "threats", o))
       /\ WF_vars(\E o \in Outcomes("summary") : Settle(i, "summary", o))

\* ------------------------------------------------------------ properties
TypeOK ==
  /\ loading \in BOOLEAN
  /\ interval \in {"unset", "armed", "cleared"}
  /\ Len(cycles) <= MaxCycles
  /\ ticks \in 0..MaxCycles
  /\ view \in {"constructed", "mounted", "unmounted"}
  /\ rendered = Mode

Reconciled == {"success", "failure"}

\* Cycle i is reconciled by this step.
ReconciledNow(i) ==
  /\ cycles[i].phase = "awaiting"
  /\ cycles'[i].phase \in Reconciled

\* A request that succeeded: answered, and for the threat list with a body
\* that is an object (any other body is a malformed payload).
ThreatsOK(r) == r.state = "fulfilled" /\ r.data.type = "object"
SummaryOK(r) == r.state = "fulfilled"

\* C1: after the effect cleanup has run, no step changes threats, summary,
\* loading or error (the UI state stays what it was at teardown).
C1_NoMutationAfterTeardown ==
  [][view = "unmounted" => UNCHANGED <<threats, summary, loading, error>>]_vars

\* C2: once the view is torn down no new fetch cycle is dispatched: the
\* number of dispatched cycles never grows after teardown.
C2_NoDispatchAfterTeardown ==
  [][view = "unmounted" => Len(cycles') = Len(cycles) /\ ticks' = ticks]_vars

\* C2 witness: torn down with a cycle in flight and room for another cycle,
\* and a later event has already taken place.
C2_Witness ==
  /\ view = "unmounted"
  /\ Len(cycles) < MaxCycles
  /\ last.kind \in {"settle", "success", "failure", "late"}

\* C3: immediately after a cycle completes successfully, loading is false
\* and error is unset, for any interleaving of overlapping cycles.
C3_SuccessClearsLoadingAndError ==
  last.kind = "success" => loading = FALSE /\ error = None

\* C4: immediately after a cycle fails, loading is false, error is a
\* non-empty string and the render mode is the error view, whatever
\* threats and summary hold.
C4_FailureShowsErrorView ==
  last.kind = "failure" =>
    /\ loading = FALSE
    /\ error # None
    /\ Len(error[1]) > 0
    /\ Mode = "error"
    /\ rendered = "error"

\* C4 witness: a cycle has just failed while the data of an earlier
\* successful cycle is still held.
C4_Witness ==
  /\ last.kind = "failure"
  /\ threats # <<>>
  /\ summary # None

\* C5 as stated: the error view, once shown, is removed by nothing but the
\* successful completion of a later cycle.
C5_ErrorViewUntilSuccess ==
  [][Mode = "error" /\ Mode' # "error" => last'.kind = "success"]_vars

\* C5 amended: the error view, once shown, stays shown until the next fetch
\* cycle is dispatched; a dispatch always removes it and nothing else does.
C5_ErrorViewUntilDispatch ==
  [][Mode = "error" =>
       (Mode' # "error" <=> Len(cycles') = Len(cycles) + 1)]_vars

\* C5 witness: the first cycle failed and the dispatch of a later cycle has
\* just removed the error view.
C5_Witness ==
  /\ last.kind = "dispatch"
  /\ last.cycle > 1
  /\ cycles[1].phase = "failure"
  /\ Mode # "error"

C7_ReconciledOnlyWhenBothSettled ==
  \A i \in 1..Len(cycles) :
    cycles[i].phase \in Reconciled =>
      cycles[i].threatsReq.state # "pending" /\ cycles[i].summaryReq.state # "pending"

\* C7 amended: a cycle is reconciled as a success only after both requests
\* have settled, and as a failure as soon as one of its requests is
\* rejected, whether or not the other has settled.
C7_JoinOnSuccessFailFast ==
  \A i \in 1..Len(cycles) :
    /\ cycles[i].phase = "success" =>
         cycles[i].threatsReq.state # "pending" /\ cycles[i].summaryReq.state # "pending"
    /\ cycles[i].phase = "awaiting" =>
         cycles[i].threatsReq.state # "rejected" /\ cycles[i].summaryReq.state # "rejected"

\* C7 witness: a cycle has just succeeded with both requests answered,
\* while another cycle was reconciled as a failure with its threats request
\* still pending.
C7_Witness ==
  /\ last.kind = "success"
  /\ last.res.threatsReq.state = "fulfilled"
  /\ last.res.summaryReq.state = "fulfilled"
  /\ \E i \in 1..Len(cycles) : cycles[i].phase = "failure"
                               /\ cycles[i].threatsReq.state = "pending"

\* C8: loading is true in every state in which a fetch cycle is in flight.
C8_LoadingWhileInFlight ==
  InFlight # {} => loading = TRUE

\* C9: once the dashboard has been rendered after a completed successful
\* cycle, no later state renders the loading placeholder.
C9_PlaceholderOnlyOnFirstLoad ==
  dashShown => Mode # "loading"

\* C10: exactly one render mode is selected, with strict precedence: the
\* error view whenever error is set, otherwise the loading placeholder iff
\* loading is true and threats is empty, otherwise the dashboard.
C10_RenderPrecedence ==
  rendered # "none" =>
    /\ rendered \in {"error", "loading", "dashboard"}
    /\ error # None => rendered = "error"
    /\ (error = None /\ loading /\ threats = <<>>) => rendered = "loading"
    /\ (error = None /\ ~(loading /\ threats = <<>>)) => rendered = "dashboard"

\* C10 witness: rendered with error set while loading is true and threats
\* is empty, the case in which the precedence decides.
C10_Witness ==
  /\ rendered = "error"
  /\ loading
  /\ threats = <<>>

\* C11: activation dispatches one fetch cycle at once and every timer tick
\* dispatches exactly one more, whether or not earlier cycles are still in
\* flight: the number of cycles dispatched is 1 plus the number of ticks.
C11_OneCyclePerTick ==
  /\ view = "constructed" => (Len(cycles) = 0 /\ ticks = 0)
  /\ view # "constructed" => Len(cycles) = 1 + ticks

\* C11 witness: a tick has dispatched a cycle while the cycle dispatched at
\* activation was still in flight.
C11_Witness ==
  /\ view = "mounted"
  /\ ticks >= 1
  /\ {1, 2} \subseteq InFlight

\* Cycle i completes successfully in this step.
SucceedsNow(i) ==
  /\ cycles[i].phase = "awaiting"
  /\ cycles'[i].phase = "success"

\* C12: last-write-wins by completion order: every successful completion
\* replaces threats and summary wholesale by the values that cycle fetched
\* (a missing threats field as the empty sequence, a missing summary body
\* as the empty record), nothing else writes them, and before any
\* successful completion threats is empty and summary is null.
C12_LastWriteWins ==
  [][/\ Succeeded = {} => (threats = <<>> /\ summary = None)
     /\ \A i \in 1..Len(cycles) : SucceedsNow(i) =>
          LET t == last'.res.threatsReq.data.fields
              s == last'.res.summaryReq.data
          IN /\ threats' = IF "threats" \in DOMAIN t THEN t["threats"] ELSE <<>>
             /\ summary' = Some(IF s.type = "null" THEN NoFields ELSE s.fields)
     /\ (~ \E i \in 1..Len(cycles) : SucceedsNow(i)) =>
          UNCHANGED <<threats, summary>>]_vars

\* C12 witness: a second successful cycle, whose threats body has no
\* threats field and whose summary body is missing, has just replaced the
\* non-empty data of an earlier one.
C12_Witness ==
  /\ last.kind = "success"
  /\ Cardinality(Succeeded) = 2
  /\ last.res.threatsReq.data = JObj(NoFields)
  /\ last.res.summaryReq.data = JNull
  /\ threats = <<>>
  /\ summary = Some(NoFields)
  /\ lastSuccess[1].stale = FALSE

\* No request has just failed: the last event is neither a cycle reconciled
\* as a failure nor an answer arriving for a cycle that already failed.
Healthy == last.kind \notin {"failure", "late"}

\* C13: failures self-heal through the ambient poll: if the ticks keep
\* occurring, every request settles and from some point on every request
\* succeeds, then eventually error is unset and the dashboard is rendered
\* from then on.
C13_SelfHeal ==
  (<>[]Healthy) => <>[](error = None /\ Mode = "dashboard")

\* Cycle i completes successfully in this step, having been dispatched with
\* no other cycle in flight, and so did the last cycle that completed
\* successfully before it, with the same two response bodies.
RepeatsNow(i) ==
  /\ SucceedsNow(i)
  /\ isolated
  /\ lastSuccess # None
  /\ lastSuccess[1].isolated
  /\ lastSuccess[1].res = <<last'.res.threatsReq.data, last'.res.summaryReq.data>>

\* The output apart from the clock text of the dashboard header.
WithoutTime(o) == IF o.mode = "dashboard" THEN [o EXCEPT !.time = 0] ELSE o

ExpectedColor(t) ==
  IF "severity" \notin DOMAIN t THEN "#888888"
  ELSE IF t.severity \in Casings(Critical) THEN "#ff4444"
  ELSE IF t.severity \in Casings(High) THEN "#ff8800"
  ELSE IF t.severity \in Casings(Medium) THEN "#ffaa00"
  ELSE IF t.severity \in Casings(Low) THEN "#88aa00"
  ELSE "#888888"

\* C15: the severity-to-color mapping is total and case-insensitive: any
\* casing of critical, high, medium, low gives red, orange, amber, olive,
\* and anything else or an absent severity gives gray.
C15_SeverityColor ==
  output.mode = "dashboard" =>
    \A k \in 1..Len(threats) :
      /\ output.cards[k].color = ExpectedColor(threats[k])
      /\ output.cards[k].color \in
           {"#ff4444", "#ff8800", "#ffaa00", "#88aa00", "#888888"}

\* C15 witness: a threat whose severity is a mixed casing of critical has
\* been rendered red.
C15_Witness ==
  /\ output.mode = "dashboard"
  /\ Len(threats) = 1
  /\ "severity" \in DOMAIN threats[1]
  /\ threats[1].severity = <<"C", "r", "I", "t", "i", "C", "a", "L">>
  /\ output.cards[1].color = "#ff4444"

\* Cycle i is reconciled as a failure in this step.
FailsNow(i) ==
  /\ cycles[i].phase = "awaiting"
  /\ cycles'[i].phase = "failure"

\* C16: a failed fetch cycle leaves threats and summary as they were
\* immediately before its reconciliation; only error and loading are
\* written.
C16_FailureKeepsData ==
  [][\A i \in 1..Len(cycles) : FailsNow(i) =>
       /\ threats' = threats
       /\ summary' = summary
       /\ error' # None
       /\ loading' = FALSE]_vars

\* C16 witness: a cycle whose two requests were both answered has just
\* failed on a null threats body while the data of an earlier successful
\* cycle is held.
C16_Witness ==
  /\ last.kind = "failure"
  /\ last.res.threatsReq.state = "fulfilled"
  /\ last.res.summaryReq.state = "fulfilled"
  /\ last.res.threatsReq.data = JNull
  /\ threats # <<>>
  /\ summary # None
  /\ error = Some(FailureText(TypeErrorMessage))

\* C17: stale overwrite: cycles carry no sequence number, so a cycle that
\* completes successfully after a cycle dispatched later has already done
\* so overwrites the later cycle's result with its own.
C17_StaleOverwrite ==
  [][\A i \in 1..Len(cycles) :
       (SucceedsNow(i) /\ \E j \in (i + 1)..Len(cycles) : cycles[j].phase = "success") =>
          LET t == last'.res.threatsReq.data.fields
              s == last'.res.summaryReq.data
          IN /\ last'.cycle = i
             /\ threats' = IF "threats" \in DOMAIN t THEN t["threats"] ELSE <<>>
             /\ summary' = Some(IF s.type = "null" THEN NoFields ELSE s.fields)
             /\ lastSuccess'[1].cycle = i]_vars

\* C17 witness: threats and summary hold the result of cycle 1 although
\* cycle 2, dispatched later, had already completed successfully with a
\* different result.
C17_Witness ==
  /\ lastSuccess # None
  /\ lastSuccess[1].cycle = 1
  /\ lastSuccess[1].stale
  /\ cycles[1].phase = "success"
  /\ Len(cycles) >= 2
  /\ cycles[2].phase = "success"
  /\ threats = <<T1>>

\* C18: every dispatched cycle goes Loading -> exactly one of Success or
\* Failure: it is reconciled once, when its Promise.all settles, and never
\* again; a failure of any kind (a rejected request, a threats body that is
\* not an object) ends in Failure with error set; and loading is set to
\* false by the reconciliation on both outcomes.
C18_CycleStateMachine ==
  [][\A i \in 1..Len(cycles) :
       /\ cycles[i].phase \in Reconciled => cycles'[i].phase = cycles[i].phase
       /\ (cycles[i].phase = "awaiting" /\ cycles'[i].phase = "awaiting") =>
            PromiseAll(cycles'[i]) = "pending"
       /\ ReconciledNow(i) =>
            LET t == last'.res.threatsReq
                s == last'.res.summaryReq
            IN /\ loading' = FALSE
               /\ cycles'[i].phase = "failure" => error' # None
               /\ (\/ t.state = "rejected"
                   \/ s.state = "rejected"
                   \/ (t.state = "fulfilled" /\ t.data.type # "object")) =>
                    (cycles'[i].phase = "failure" /\ error' # None)]_vars

\* C19: threats and summary are always a matched pair: either both hold
\* their initial values (no cycle has succeeded), or both are what one and
\* the same successful cycle fetched, and summary is then not null.
C19_MatchedPair ==
  IF lastSuccess = None
  THEN Succeeded = {} /\ threats = <<>> /\ summary = None
  ELSE LET t == lastSuccess[1].res[1].fields
           s == lastSuccess[1].res[2]
       IN /\ Succeeded # {}
          /\ threats = IF "threats" \in DOMAIN t THEN t["threats"] ELSE <<>>
          /\ summary = Some(IF s.type = "null" THEN NoFields ELSE s.fields)
          /\ summary # None

\* C19 witness: the pair is that of cycle 2 while cycle 1, dispatched
\* earlier, has its threat list answered (a different one) and waits for
\* its summary.
C19_Witness ==
  /\ lastSuccess # None
  /\ lastSuccess[1].cycle = 2
  /\ cycles[1].phase = "awaiting"
  /\ cycles[1].threatsReq.state = "fulfilled"
  /\ ThreatsOf(cycles[1].threatsReq.data) = <<T2, T1>>
  /\ threats = <<T1>>
  /\ summary # None
====
